---- MODULE Spec2Model ----
(***************************************************************************)
(* Model of the generate_image tool of the Together AI image MCP server    *)
(* (src/src/index.ts): the argument validator, the call-tool handler and   *)
(* the per-image steps that Promise.all runs concurrently.                 *)
(*                                                                         *)
(* JavaScript values are tagged records [t, s, n]: t is the typeof tag,    *)
(* s the string (a sequence of tokens, so that String.replace and          *)
(* path.join act on text) and n the number.                                *)
(***************************************************************************)
EXTENDS Integers, Sequences, FiniteSets, TLC

VARIABLES
    pc,         \* pc[c]: "idle", "rejected", "api" (awaiting the API), "map", "failed"
    request,    \* request[c]: the call-tool request of call c
    resp,       \* resp[c]: the response delivered for call c, kind "none" before
    apiReq,     \* apiReq[c]: what together.images.create was called with
    dirs,       \* directories that exist
    made,       \* directories created by mkdirSync
    files,      \* files on disk: records [path, enc, width, height]
    images,     \* images[c]: the per-image callbacks of call c
    results,    \* results[c]: the values Promise.all has gathered
    writeLog,   \* every toFile that completed: [call, index, path, enc, width,
                \* height, late]; late: the call had already answered
    warnings,   \* warnings[c]: console.warn calls of call c
    now         \* the last wall-clock reading, in milliseconds

vars == <<pc, request, resp, apiReq, dirs, made, files, images, results,
          writeLog, warnings, now>>

----------------------------------------------------------------------------
(* Bounds *)

MaxImages == 2      \* largest n a request asks for
MaxClock == 1       \* new Date().getTime() reads 0..MaxClock

Calls == {1, 2}     \* overlapping call-tool requests

----------------------------------------------------------------------------
(* JavaScript values *)

Undef == [t |-> "undefined", s |-> <<>>, n |-> 0]
Str(toks) == [t |-> "string", s |-> toks, n |-> 0]
Num(k) == [t |-> "number", s |-> <<>>, n |-> k]

\* ToBoolean: undefined, 0 and "" are falsy
Truthy(v) ==
    CASE v.t = "undefined" -> FALSE
      [] v.t = "number" -> v.n # 0
      [] v.t = "string" -> v.s # <<>>
      [] OTHER -> TRUE

\* a || b
OrElse(a, b) == IF Truthy(a) THEN a ELSE b

Max(a, b) == IF a >= b THEN a ELSE b
Min(a, b) == IF a <= b THEN a ELSE b

----------------------------------------------------------------------------
(* Program constants *)

MIN_API_DIM == 256
DEFAULT_WIDTH == 1024
DEFAULT_HEIGHT == 768
DEFAULT_STEPS == 28
DEFAULT_MODEL == <<"black-forest-labs/FLUX.1.1-pro">>
Formats == {<<"png">>, <<"jpg">>, <<"svg">>}
Cwd == <<"/", "cwd">>

----------------------------------------------------------------------------
(* The argument validator *)

\* the validator without the check of line 42
isValidGenerateImageArgs_AnyFormat(args) ==
    /\ args.prompt.t = "string"
    /\ (args.model.t = "undefined" \/ args.model.t = "string")
    /\ (args.width.t = "undefined" \/ args.width.t = "number")
    /\ (args.height.t = "undefined" \/ args.height.t = "number")
    /\ (args.steps.t = "undefined" \/ args.steps.t = "number")
    /\ (args.n.t = "undefined" \/ args.n.t = "number")
    /\ (args.outputDir.t = "undefined" \/ args.outputDir.t = "string")

isValidGenerateImageArgs(args) ==
    /\ args.prompt.t = "string"
    /\ (args.model.t = "undefined" \/ args.model.t = "string")
    /\ (args.width.t = "undefined" \/ args.width.t = "number")
    /\ (args.height.t = "undefined" \/ args.height.t = "number")
    /\ (args.steps.t = "undefined" \/ args.steps.t = "number")
    /\ (args.n.t = "undefined" \/ args.n.t = "number")
    /\ (args.outputDir.t = "undefined" \/ args.outputDir.t = "string")
    /\ (args.format.t = "undefined"
          \/ (args.format.t = "string" /\ args.format.s \in Formats))

----------------------------------------------------------------------------
(* Requests the host may send *)

NoArguments ==
    [prompt |-> Undef, model |-> Undef, width |-> Undef, height |-> Undef,
     steps |-> Undef, n |-> Undef, outputDir |-> Undef, format |-> Undef]

Plain == [NoArguments EXCEPT !.prompt = Str(<<"a cat">>)]

OutDir == <<"/", "out">>
SvgDir == <<"/", "art", ".", "svg", "/", "out">>
SvgDirSwapped == <<"/", "art", ".", "png", "/", "out">>
RelDir == <<"rel">>

ValidArguments ==
    { Plain,
      [Plain EXCEPT !.n = Num(MaxImages), !.outputDir = Str(OutDir)],
      [Plain EXCEPT !.n = Num(0), !.width = Num(0), !.height = Num(0),
                    !.outputDir = Str(OutDir)],
      [Plain EXCEPT !.n = Num(-1), !.outputDir = Str(<<>>)],
      [Plain EXCEPT !.width = Num(128), !.height = Num(256),
                    !.format = Str(<<"jpg">>), !.outputDir = Str(RelDir)],
      [Plain EXCEPT !.width = Num(100), !.height = Num(50),
                    !.n = Num(2), !.outputDir = Str(OutDir)],
      [Plain EXCEPT !.width = Num(512), !.height = Num(128),
                    !.steps = Num(4), !.model = Str(<<"m">>)],
      [Plain EXCEPT !.width = Num(-5), !.outputDir = Str(OutDir)],
      [Plain EXCEPT !.width = Num(1), !.height = Num(2048)],
      [Plain EXCEPT !.format = Str(<<"svg">>), !.outputDir = Str(OutDir),
                    !.n = Num(2)],
      [Plain EXCEPT !.format = Str(<<"svg">>), !.outputDir = Str(SvgDir)] }

InvalidArguments ==
    { NoArguments,
      [Plain EXCEPT !.prompt = Num(7)],
      [Plain EXCEPT !.format = Str(<<"bmp">>)],
      [Plain EXCEPT !.width = Str(<<"wide">>)],
      [Plain EXCEPT !.n = Str(<<"2">>), !.outputDir = Str(OutDir)],
      [Plain EXCEPT !.outputDir = Num(3)] }

Requests ==
    [name : {"generate_image"}, hasArguments : {TRUE},
     arguments : ValidArguments \cup InvalidArguments]
    \cup [name : {"generate_image"}, hasArguments : {FALSE},
          arguments : {NoArguments}]
    \cup [name : {"list_models"}, hasArguments : {TRUE, FALSE},
          arguments : {NoArguments, Plain}]

\* what a second call, overlapping the first, asks for
OverlapRequests ==
    { [name |-> "generate_image", hasArguments |-> TRUE,
       arguments |-> [Plain EXCEPT !.width = Num(512), !.height = Num(512),
                                   !.outputDir = Str(OutDir)]],
      [name |-> "list_models", hasArguments |-> TRUE, arguments |-> Plain] }

RequestsOf(c) == IF c = 1 THEN Requests ELSE OverlapRequests

----------------------------------------------------------------------------
(* Strings and paths *)

\* the first position at which pat occurs in s, 0 when it does not
RECURSIVE IndexFrom(_, _, _)
IndexFrom(s, pat, p) ==
    IF p + Len(pat) - 1 > Len(s) THEN 0
    ELSE IF SubSeq(s, p, p + Len(pat) - 1) = pat THEN p
    ELSE IndexFrom(s, pat, p + 1)

\* String.prototype.replace with a string pattern: the first occurrence only
Replace(s, pat, rep) ==
    LET p == IndexFrom(s, pat, 1)
    IN  IF p = 0 THEN s
        ELSE SubSeq(s, 1, p - 1) \o rep \o SubSeq(s, p + Len(pat), Len(s))

\* path.resolve: an absolute path stays, a relative one is taken from the cwd
Resolve(p) == IF p[1] = "/" THEN p ELSE Cwd \o <<"/">> \o p

\* path.join(dir, name)
Join(dir, name) == dir \o <<"/">> \o name

RECURSIVE LastSlash(_, _)
LastSlash(p, i) == IF i = 0 \/ p[i] = "/" THEN i ELSE LastSlash(p, i - 1)

\* the directory a file path lies in
DirName(p) == SubSeq(p, 1, LastSlash(p, Len(p)) - 1)

----------------------------------------------------------------------------
(* Lines 158-174: the dimensions and the count sent to the API *)

requestWidth(args) == OrElse(args.width, Num(DEFAULT_WIDTH)).n
requestHeight(args) == OrElse(args.height, Num(DEFAULT_HEIGHT)).n
apiWidth(args) == Max(MIN_API_DIM, requestWidth(args))
apiHeight(args) == Max(MIN_API_DIM, requestHeight(args))
apiCount(args) == OrElse(args.n, Num(1)).n

CreateParams(args) ==
    [calls |-> 1,
     model |-> OrElse(args.model, Str(DEFAULT_MODEL)).s,
     prompt |-> args.prompt.s,
     width |-> apiWidth(args),
     height |-> apiHeight(args),
     steps |-> OrElse(args.steps, Num(DEFAULT_STEPS)).n,
     n |-> apiCount(args)]

NotCalled ==
    [calls |-> 0, model |-> <<>>, prompt |-> <<>>, width |-> 0, height |-> 0,
     steps |-> 0, n |-> 0]

\* Lines 177-179
outputDir(args) ==
    IF Truthy(args.outputDir) THEN Resolve(args.outputDir.s)
    ELSE Join(Cwd, <<"output">>)

formatOf(args) == OrElse(args.format, Str(<<"png">>)).s

----------------------------------------------------------------------------
(* Lines 191-218: the resize block *)

\* Math.round of the rational p/q, q > 0: the nearest integer, halves upward
Round(p, q) == (2 * p + q) \div (2 * q)

needsResize(rw, rh) == rw < MIN_API_DIM \/ rh < MIN_API_DIM

\* the two branches of lines 202-209 in the other order: the width branch last
TargetDims_WidthLast(rw, rh, originalWidth, originalHeight) ==
    LET h1 == rh
        w1 == IF rh < MIN_API_DIM
              THEN Round(rh * originalWidth, originalHeight) ELSE rw
        w2 == IF rw < MIN_API_DIM THEN rw ELSE w1
        h2 == IF rw < MIN_API_DIM
              THEN Round(rw * originalHeight, originalWidth) ELSE h1
    IN  <<w2, h2>>

\* targetWidth and targetHeight for a source of originalWidth x originalHeight;
\* aspectRatio is originalWidth / originalHeight
TargetDims(rw, rh, originalWidth, originalHeight) ==
    LET w1 == rw
        h1 == IF rw < MIN_API_DIM
              THEN Round(rw * originalHeight, originalWidth) ELSE rh
        h2 == IF rh < MIN_API_DIM THEN rh ELSE h1
        w2 == IF rh < MIN_API_DIM
              THEN Round(rh * originalWidth, originalHeight) ELSE w1
    IN  <<w2, h2>>

\* sharp's resize takes positive integers only
ResizeAccepts(d) == d[1] > 0 /\ d[2] > 0

----------------------------------------------------------------------------
(* Lines 220-244: file name, file path and the path toFile is given *)

filenameOf(timestamp, index, format) ==
    <<"image_", ToString(timestamp), "_", ToString(index), ".">> \o format

filepathOf(dir, filename) == Join(dir, filename)

WriteTarget(filepath, format) ==
    IF format = <<"svg">> THEN Replace(filepath, <<".", "svg">>, <<".", "png">>)
    ELSE filepath

WriteEncoding(format) == IF format = <<"jpg">> THEN "jpeg" ELSE "png"

\* the path whose metadata is read back for dimensions.final (line 252)
RereadPath(filepath, format) == filepath

FileAt(p) == {f \in files : f.path = p}

----------------------------------------------------------------------------
(* Responses and the values Promise.all gathers *)

NoResponse == [kind |-> "none", body |-> <<>>]
ErrorResponse(code) == [kind |-> code, body |-> <<>>]
SuccessResponse(vals) == [kind |-> "success", body |-> vals]

NoRequest == [name |-> "", hasArguments |-> FALSE, arguments |-> NoArguments]

Pending ==
    [filled |-> FALSE, id |-> 0, filepath |-> <<>>, filename |-> <<>>,
     original |-> <<0, 0>>, final |-> <<0, 0>>]

\* the values kept in the order the promises are fulfilled in
PromiseAllStore_Arrival(vals, i, e) ==
    LET free == {j \in 1..Len(vals) : ~vals[j].filled}
        first == CHOOSE j \in free : \A m \in free : j <= m
    IN  [vals EXCEPT ![first] = e]

\* Promise.all keeps the value of the i-th promise in slot i
PromiseAllStore(vals, i, e) == [vals EXCEPT ![i] = e]

AllFilled(vals) == \A i \in 1..Len(vals) : vals[i].filled

\* a handler that answers a rejection with the entries gathered so far
Outcome_Partial(failedNow, vals) ==
    IF failedNow \/ AllFilled(vals) THEN SuccessResponse(vals) ELSE NoResponse

\* Lines 187, 260-274: what the handler answers once a per-image promise has
\* settled: the first rejection is caught and answered with the internal
\* error; the success response waits for every value.
Outcome(failedNow, vals) ==
    IF failedNow THEN ErrorResponse("InternalError")
    ELSE IF AllFilled(vals) THEN SuccessResponse(vals)
    ELSE NoResponse

\* a response is delivered once per call
Deliver(c, r) == IF resp[c].kind = "none" THEN [resp EXCEPT ![c] = r] ELSE resp

----------------------------------------------------------------------------
(* The external API: it answers with at most the count it was asked for,   *)
(* each image of one size, or fails.                                       *)

ApiCounts(asked) == 0..Min(Max(asked, 0), MaxImages)

SourceSizes(args) == {<<apiWidth(args), apiHeight(args)>>, <<512, 512>>}

\* successive readings of the clock never decrease
Readings(k) ==
    {s \in [1..k -> now..MaxClock] : \A i \in 1..k, j \in 1..k : i <= j => s[i] <= s[j]}

LastReading(s) == IF Len(s) = 0 THEN now ELSE s[Len(s)]

----------------------------------------------------------------------------
(* The per-image callback of line 187.  st is the await it is suspended at: *)
(* "resize" (lines 193-217), "write" (toFile, lines 230-239), "reread"     *)
(* (line 252); "done" and "failed" are its promise fulfilled and rejected. *)

NewImage(k, size) ==
    [st |-> "resize", id |-> k, buf |-> size, source |-> size,
     filepath |-> <<>>, target |-> <<>>]

\* Lines 220-239, up to the await of toFile: the clock is read, the file name
\* and path are built and the write is issued
Stamped(img, args, index, timestamp) ==
    LET format == formatOf(args)
        filepath == filepathOf(outputDir(args), filenameOf(timestamp, index, format))
    IN  [img EXCEPT !.st = "write", !.filepath = filepath,
                    !.target = WriteTarget(filepath, format)]

----------------------------------------------------------------------------
\* directories of the host's file system before the server starts
HostDirs == {SvgDirSwapped}

Init ==
    /\ pc = [c \in Calls |-> "idle"]
    /\ request = [c \in Calls |-> NoRequest]
    /\ resp = [c \in Calls |-> NoResponse]
    /\ apiReq = [c \in Calls |-> NotCalled]
    /\ dirs = HostDirs
    /\ made = {}
    /\ files = {}
    /\ images = [c \in Calls |-> <<>>]
    /\ results = [c \in Calls |-> <<>>]
    /\ writeLog = {}
    /\ warnings = [c \in Calls |-> 0]
    /\ now = 0

\* Lines 141-174: dispatch, validation and the call of the external API
CallTool(c, r) ==
    /\ pc[c] = "idle"
    /\ request' = [request EXCEPT ![c] = r]
    /\ IF r.name # "generate_image"
       THEN /\ resp' = Deliver(c, ErrorResponse("MethodNotFound"))
            /\ pc' = [pc EXCEPT ![c] = "done"]
            /\ UNCHANGED apiReq
       ELSE IF ~r.hasArguments \/ ~isValidGenerateImageArgs(r.arguments)
       THEN /\ resp' = Deliver(c, ErrorResponse("InvalidParams"))
            /\ pc' = [pc EXCEPT ![c] = "done"]
            /\ UNCHANGED apiReq
       ELSE /\ apiReq' = [apiReq EXCEPT ![c] = CreateParams(r.arguments)]
            /\ pc' = [pc EXCEPT ![c] = "api"]
            /\ UNCHANGED resp
    /\ UNCHANGED <<dirs, made, files, images, results, writeLog, warnings, now>>

\* Line 166 rejects: the catch block answers with the internal error
ApiFail(c) ==
    /\ pc[c] = "api"
    /\ pc' = [pc EXCEPT ![c] = "done"]
    /\ resp' = Deliver(c, ErrorResponse("InternalError"))
    /\ UNCHANGED <<request, apiReq, dirs, made, files, images, results,
                   writeLog, warnings, now>>

\* Lines 166-187: the API answers with Len(stamps) images; the output
\* directory is resolved and created and the per-image callbacks are started.
\* A callback runs to its first await within the map: with no resize that is
\* toFile, so the clock is read for every image here.
ApiReturn(c, stamps, size, mkdirOk) ==
    LET args == request[c].arguments
        dir == outputDir(args)
        k == Len(stamps)
        resizing == needsResize(requestWidth(args), requestHeight(args))
    IN  /\ pc[c] = "api"
        /\ k \in ApiCounts(apiReq[c].n)
        /\ size \in SourceSizes(args)
        /\ stamps \in Readings(k)
        /\ IF dir \notin dirs /\ ~mkdirOk
           THEN /\ pc' = [pc EXCEPT ![c] = "done"]
                /\ resp' = Deliver(c, ErrorResponse("InternalError"))
                /\ stamps = [i \in 1..k |-> now]
                /\ UNCHANGED <<dirs, made, images, results, now>>
           ELSE /\ dirs' = dirs \cup {dir}
                /\ made' = IF dir \in dirs THEN made
                           ELSE made \cup {[call |-> c, dir |-> dir]}
                /\ IF resizing
                   THEN /\ stamps = [i \in 1..k |-> now]
                        /\ images' = [images EXCEPT
                              ![c] = [i \in 1..k |-> NewImage(i, size)]]
                        /\ UNCHANGED now
                   ELSE /\ images' = [images EXCEPT
                              ![c] = [i \in 1..k |->
                                 Stamped(NewImage(i, size), args, i - 1, stamps[i])]]
                        /\ now' = LastReading(stamps)
                /\ results' = [results EXCEPT ![c] = [i \in 1..k |-> Pending]]
                /\ pc' = [pc EXCEPT ![c] = "map"]
                /\ resp' = Deliver(c, Outcome(FALSE, results'[c]))
        /\ UNCHANGED <<request, apiReq, files, writeLog, warnings>>

\* an image's promise rejects
Reject(c, i) ==
    /\ images' = [images EXCEPT ![c][i].st = "failed"]
    /\ resp' = Deliver(c, Outcome(TRUE, results[c]))
    /\ UNCHANGED results

\* Lines 193-226: the metadata is read and the buffer resized to the target
\* dimensions; then the clock is read and the write issued
ImageResize(c, i, timestamp, ok) ==
    LET args == request[c].arguments
        rw == requestWidth(args)
        rh == requestHeight(args)
        img == images[c][i]
        target == TargetDims(rw, rh, img.source[1], img.source[2])
    IN  /\ pc[c] = "map"
        /\ i \in 1..Len(images[c])
        /\ img.st = "resize"
        /\ timestamp \in now..MaxClock
        /\ IF ~ok \/ ~ResizeAccepts(target)
           THEN /\ Reject(c, i)
                /\ timestamp = now
                /\ UNCHANGED now
           ELSE /\ images' = [images EXCEPT ![c][i] =
                      Stamped([img EXCEPT !.buf = target], args, i - 1, timestamp)]
                /\ now' = timestamp
                /\ UNCHANGED <<resp, results>>
        /\ UNCHANGED <<pc, request, apiReq, dirs, made, files, writeLog, warnings>>

\* Lines 228-244: toFile completes; the svg case warns
ImageWrite(c, i, ok) ==
    LET format == formatOf(request[c].arguments)
        img == images[c][i]
    IN  /\ pc[c] = "map"
        /\ i \in 1..Len(images[c])
        /\ img.st = "write"
        /\ IF ~ok \/ DirName(img.target) \notin dirs
           THEN /\ Reject(c, i)
                /\ UNCHANGED <<files, writeLog, warnings>>
           ELSE /\ files' = (files \ FileAt(img.target))
                      \cup {[path |-> img.target, enc |-> WriteEncoding(format),
                             width |-> img.buf[1], height |-> img.buf[2]]}
                /\ writeLog' = writeLog
                      \cup {[call |-> c, index |-> i - 1, path |-> img.target,
                             enc |-> WriteEncoding(format),
                             width |-> img.buf[1], height |-> img.buf[2],
                             late |-> resp[c].kind # "none"]}
                /\ warnings' = IF format = <<"svg">>
                               THEN [warnings EXCEPT ![c] = @ + 1]
                               ELSE warnings
                /\ images' = [images EXCEPT ![c][i].st = "reread"]
                /\ UNCHANGED <<resp, results>>
        /\ UNCHANGED <<pc, request, apiReq, dirs, made, now>>

\* Lines 246-257: the metadata is read back and the image's promise fulfilled
ImageReread(c, i, ok) ==
    LET args == request[c].arguments
        img == images[c][i]
        path == RereadPath(img.filepath, formatOf(args))
        entry(f) ==
            [filled |-> TRUE, id |-> img.id, filepath |-> img.filepath,
             filename |-> SubSeq(img.filepath,
                                 LastSlash(img.filepath, Len(img.filepath)) + 1,
                                 Len(img.filepath)),
             original |-> <<apiWidth(args), apiHeight(args)>>,
             final |-> <<f.width, f.height>>]
    IN  /\ pc[c] = "map"
        /\ i \in 1..Len(images[c])
        /\ img.st = "reread"
        /\ IF ~ok \/ FileAt(path) = {}
           THEN Reject(c, i)
           ELSE /\ \E f \in FileAt(path) :
                     results' = [results EXCEPT
                                   ![c] = PromiseAllStore(@, i, entry(f))]
                /\ images' = [images EXCEPT ![c][i].st = "done"]
                /\ resp' = Deliver(c, Outcome(FALSE, results'[c]))
        /\ UNCHANGED <<pc, request, apiReq, dirs, made, files, writeLog,
                       warnings, now>>

Next ==
    \/ \E c \in Calls : \E r \in RequestsOf(c) : CallTool(c, r)
    \/ \E c \in Calls : ApiFail(c)
    \/ \E c \in Calls, k \in 0..MaxImages, mkdirOk \in BOOLEAN :
          \E size \in SourceSizes(request[c].arguments), stamps \in Readings(k) :
             ApiReturn(c, stamps, size, mkdirOk)
    \/ \E c \in Calls, i \in 1..MaxImages, timestamp \in 0..MaxClock,
          ok \in BOOLEAN : ImageResize(c, i, timestamp, ok)
    \/ \E c \in Calls, i \in 1..MaxImages, ok \in BOOLEAN : ImageWrite(c, i, ok)
    \/ \E c \in Calls, i \in 1..MaxImages, ok \in BOOLEAN : ImageReread(c, i, ok)

Spec == Init /\ [][Next]_vars

----------------------------------------------------------------------------
(* Claims *)

Args(c) == request[c].arguments
Dispatched(c) == pc[c] # "idle"
Accepted(c) == apiReq[c].calls = 1
WritesOf(c) == {w \in writeLog : w.call = c}

\* the rejections the claim names: another tool name, no arguments, or
\* arguments the validator must refuse
ClaimRejects(r) ==
    \/ r.name # "generate_image"
    \/ ~r.hasArguments
    \/ r.arguments \in InvalidArguments

\* C1: a call-tool request rejected at dispatch fails with method-not-found
\* when the tool name is not generate_image (whatever its arguments) and with
\* invalid-parameters otherwise, and has no side effect: the API is not
\* called, no directory is created and no file is written for it.
C1_RejectedWithoutSideEffect ==
    \A c \in Calls :
        (Dispatched(c) /\ ClaimRejects(request[c])) =>
            /\ resp[c].kind = IF request[c].name # "generate_image"
                              THEN "MethodNotFound" ELSE "InvalidParams"
            /\ resp[c].body = <<>>
            /\ apiReq[c] = NotCalled
            /\ images[c] = <<>>
            /\ WritesOf(c) = {}
            /\ \A m \in made : m.call # c

\* a request with format bmp was rejected while the other call wrote a file
C1_Witness ==
    /\ Dispatched(1)
    /\ request[1].name = "generate_image"
    /\ Args(1).format = Str(<<"bmp">>)
    /\ resp[1].kind = "InvalidParams"
    /\ WritesOf(2) # {}

\* C2 as stated: a successful response to a request with n = k (absent: 1)
\* has exactly k entries, or fewer only if the API returned fewer images than
\* it was asked for; for every accepted n, 0 included (a negative n, for
\* which no count of entries can be k, is left aside).
C2_EntriesEqualN ==
    \A c \in Calls :
        resp[c].kind = "success" =>
            LET k == IF Args(c).n.t = "undefined" THEN 1 ELSE Args(c).n.n
            IN  \/ k < 0
                \/ Len(resp[c].body) = k
                \/ /\ Len(resp[c].body) < k
                   /\ Len(images[c]) < apiReq[c].n

\* the dimension the claim takes as requested: the value supplied, the
\* default only when none is supplied
Supplied(v, default) == IF v.t = "undefined" THEN default ELSE v.n

\* C3 as stated: the width and height sent to the API are max(256, d) for the
\* supplied d (default 1024 and 768 only when not supplied), for every number
\* the validator accepts, 0 and negative values included.
C3_ApiDimsClampSupplied ==
    \A c \in Calls :
        Accepted(c) =>
            /\ apiReq[c].width = Max(256, Supplied(Args(c).width, 1024))
            /\ apiReq[c].height = Max(256, Supplied(Args(c).height, 768))

\* v is p/q rounded to the nearest integer, halves upward (q > 0)
IsRounded(v, p, q) == 2 * v * q - q <= 2 * p /\ 2 * p < 2 * v * q + q

\* C4: the size of every persisted image is fixed by the requested width w and
\* height h of the handler and the decoded source size W x H: W x H when both
\* are at least 256; (w, round(w*H/W)) when only w is below 256; and
\* (round(h*W/H), h) when h is below 256, whatever w is.
C4_PersistedDimensions ==
    \A x \in writeLog :
        LET w == requestWidth(Args(x.call))
            h == requestHeight(Args(x.call))
            W == images[x.call][x.index + 1].source[1]
            H == images[x.call][x.index + 1].source[2]
        IN  /\ (w >= 256 /\ h >= 256) => (x.width = W /\ x.height = H)
            /\ (w < 256 /\ h >= 256) =>
                   (x.width = w /\ IsRounded(x.height, w * H, W))
            /\ h < 256 => (x.height = h /\ IsRounded(x.width, h * W, H))
            /\ (w = 128 /\ W = H) => (x.width = 128 /\ x.height = 128)

\* w = 100 and h = 50: the persisted width is the one derived from the height
C4_Witness ==
    \E x \in writeLog :
        /\ Args(x.call).width = Num(100)
        /\ Args(x.call).height = Num(50)
        /\ x.height = 50
        /\ x.width # 100

\* C5 as stated: with format svg every image is written as a PNG at its own
\* file path with .png in place of the extension .svg, in the same output
\* directory, whatever that directory is called; a warning is emitted and
\* nothing is written at the .svg path.
C5_SvgWrittenBesideAsPng ==
    \A x \in writeLog :
        Args(x.call).format = Str(<<"svg">>) =>
            LET filepath == images[x.call][x.index + 1].filepath
            IN  /\ x.enc = "png"
                /\ x.path = [filepath EXCEPT ![Len(filepath)] = "png"]
                /\ DirName(x.path) = outputDir(Args(x.call))
                /\ FileAt(filepath) = {}
                /\ warnings[x.call] >= 1

\* C6: a call that passed validation ends with the success response, which
\* describes every image the API returned, or with one internal error that
\* carries no entry; any failure (API, mkdir, or a step of one image) gives
\* the internal error even when files were written, and those files stay.
C6_AllOrInternalError ==
    /\ \A c \in Calls :
          Accepted(c) =>
              /\ resp[c].kind \in {"none", "success", "InternalError"}
              /\ resp[c].kind = "success" =>
                    /\ pc[c] = "map"
                    /\ Len(resp[c].body) = Len(images[c])
                    /\ \A i \in 1..Len(images[c]) :
                          /\ images[c][i].st = "done"
                          /\ resp[c].body[i].filled
              /\ resp[c].kind = "InternalError" => resp[c].body = <<>>
              /\ pc[c] = "done" => resp[c].kind = "InternalError"
              /\ (\E i \in 1..Len(images[c]) : images[c][i].st = "failed")
                    => resp[c].kind = "InternalError"
              /\ (pc[c] = "map" /\ \A i \in 1..Len(images[c]) :
                                      images[c][i].st \in {"done", "failed"})
                    => resp[c].kind # "none"
    /\ \A x \in writeLog : FileAt(x.path) # {}

\* the internal error was answered although a file of the call is on disk
C6_Witness ==
    \E c \in Calls :
        /\ resp[c].kind = "InternalError"
        /\ \E i \in 1..Len(images[c]) : images[c][i].st = "failed"
        /\ \E x \in WritesOf(c) : ~x.late /\ FileAt(x.path) # {}

\* C7 as stated: no two image writes target the same file path, within one
\* call and across overlapping calls, whatever milliseconds they read.
C7_WritePathsDistinct ==
    \A x \in writeLog, y \in writeLog :
        (x.call # y.call \/ x.index # y.index) => x.path # y.path

\* C8 as stated: for every format the path read back for dimensions.final is
\* the path the same image step has just written.
C8_RereadsWrittenFile ==
    \A c \in Calls : \A i \in 1..Len(images[c]) :
        images[c][i].st \in {"reread", "done"} =>
            RereadPath(images[c][i].filepath, formatOf(Args(c)))
                = images[c][i].target

\* C9: entry i of a successful response describes image i of the API's
\* response and carries index i (counted from 0) in its file name, whatever
\* the order the images' steps finished in.
C9_OrderPreserved ==
    \A c \in Calls :
        resp[c].kind = "success" =>
            \A i \in 1..Len(resp[c].body) :
                /\ resp[c].body[i].id = i
                /\ resp[c].body[i].filename[1] = "image_"
                /\ resp[c].body[i].filename[4] = ToString(i - 1)
                /\ resp[c].body[i].filepath = images[c][i].filepath

\* a success whose second image was stamped before its first
C9_Witness ==
    \E c \in Calls :
        /\ resp[c].kind = "success"
        /\ Len(resp[c].body) >= 2
        /\ resp[c].body[2].filename[2] = "0"
        /\ resp[c].body[1].filename[2] = "1"

\* C10 as stated: once a call has answered, it writes no further file.
C10_NoWriteAfterResponse == \A x \in writeLog : ~x.late

====
